---- MODULE Spec2Model ----
(***************************************************************************)
(* Model of rbiter's grader (src/grader.py): grade_column reads a column   *)
(* of answers, comp_exp_list grades each of them against the correct       *)
(* answer under a SIGALRM based time limit, comp_exp_latex compares one    *)
(* answer, evaluate_latex evaluates one latex string.                      *)
(*                                                                         *)
(* The latex parser and sympy are external: they are modelled by a table   *)
(* over a small universe of latex strings (parse_latex) and by exact       *)
(* integer arithmetic on values held in units of 10^-8.                    *)
(***************************************************************************)
EXTENDS Integers, Sequences, FiniteSets, TLC

\* ------------------------------------------------------------------ bounds
\* Longest column grade_column reads.
MaxRows == 2

\* ---------------------------------------------------------------- outcome
\* The codes of comp_exp_list, times ten (0, 0.1, 1, 1.1, 2, 3).
NOT_EQUIVALENT == 0
NOT_EQUIVALENT_SUSPICIOUS == 1
EQUIVALENT == 10
EQUIVALENT_SUSPICIOUS == 11
TIMED_OUT == 20
ERRORED == 30

\* Default of evaluate_latex's parameter maxn.
DefaultMaxn == 100
\* Default of evaluate_latex's parameter mode.
DefaultMode == "numeric"
\* Defaults of comp_exp_list's parameters exec_limit, suspicious_threshold and
\* numeric_threshold.
DefaultExecLimit == 1
DefaultSuspiciousThreshold == 6
DefaultNumericThreshold == 0
\* The argument of time_limit in comp_exp_list.
TimeLimitSeconds == 1

\* ------------------------------------------------------- latex strings
\* A latex string is a tuple of characters.
Empty == << >>
Third == <<"1", "/", "3">>
Decimal == <<"0", ".", "3", "3", "3", "3", "3", "3">>
Malformed == <<"{">>
FreeSymbol == <<"x">>
Tower == <<"9", "^", "9", "^", "9">>
PiQuarter == <<"p", "i", "/", "4">>

Texts == {Empty, Third, Decimal, Malformed, FreeSymbol, Tower, PiQuarter}
\* The correct answers tried.
CorrectTexts == {Third, PiQuarter, Malformed}

Digits == {"0", "1", "2", "3", "4", "5", "6", "7", "8", "9"}

\* Values are integers in units of 10^-8 holding FullDigits significant digits.
FullDigits == 8

RECURSIVE Pow10(_)
Pow10(n) == IF n = 0 THEN 1 ELSE 10 * Pow10(n - 1)

Abs(x) == IF x < 0 THEN -x ELSE x

Max(a, b) == IF a >= b THEN a ELSE b

\* ------------------------------------------------- external collaborators
\* sympy.parsing.latex.parse_latex: an expression, an exception, or no return.
\* num tells a sympy Number (Rational, Float) from an expression that holds a
\* symbol or an irrational constant such as pi.
parse_latex(exp) ==
    CASE exp = Third      -> [kind |-> "ok",   sym |-> "1/3",      val |-> 33333333, free |-> FALSE, num |-> TRUE]
      [] exp = Decimal    -> [kind |-> "ok",   sym |-> "0.333333", val |-> 33333300, free |-> FALSE, num |-> TRUE]
      [] exp = PiQuarter  -> [kind |-> "ok",   sym |-> "pi/4",     val |-> 78539816, free |-> FALSE, num |-> FALSE]
      [] exp = FreeSymbol -> [kind |-> "ok",   sym |-> "x",        val |-> 0,        free |-> TRUE,  num |-> FALSE]
      [] exp = Tower      -> [kind |-> "hang", sym |-> "",         val |-> 0,        free |-> FALSE, num |-> FALSE]
      [] OTHER            -> [kind |-> "fail", sym |-> "",         val |-> 0,        free |-> FALSE, num |-> FALSE]

\* A value kept to n significant digits.
Round(val, n) ==
    IF n >= FullDigits THEN val
    ELSE (val \div Pow10(FullDigits - n)) * Pow10(FullDigits - n)

\* sympy.N(sympy_exp, maxn): the expression evaluated to maxn digits; free
\* symbols stay in it, a closed expression becomes a Float.
N(sympy_exp, maxn) ==
    [form |-> "numeric", sym |-> sympy_exp.sym, val |-> Round(sympy_exp.val, maxn),
     prec |-> maxn, free |-> sympy_exp.free, num |-> ~sympy_exp.free]

\* The expression parse_latex returns, kept as it is.
Symbolic(sympy_exp) ==
    [form |-> "symbolic", sym |-> sympy_exp.sym, val |-> sympy_exp.val,
     prec |-> 0, free |-> sympy_exp.free, num |-> sympy_exp.num]

NoExp == [form |-> "none", sym |-> "", val |-> 0, prec |-> 0, free |-> FALSE,
          num |-> FALSE]

\* ---------------------------------------------------------- evaluate_latex
\* evaluate_latex with the failure of the parser swallowed: no exception, and
\* no value.
evaluate_latex_swallow(exp, mode_, maxn_) ==
    LET sympy_exp == parse_latex(exp) IN
    IF mode_ = "numeric" \/ mode_ = "symbolic" THEN
        CASE sympy_exp.kind = "ok"   ->
                 [kind |-> "ok",
                  value |-> IF mode_ = "numeric" THEN N(sympy_exp, maxn_)
                            ELSE Symbolic(sympy_exp)]
          [] sympy_exp.kind = "hang" -> [kind |-> "hang", value |-> NoExp]
          [] OTHER                   -> [kind |-> "ok", value |-> NoExp]
    ELSE [kind |-> "LookupError", value |-> NoExp]

evaluate_latex(exp, mode_, maxn_) ==
    LET sympy_exp == parse_latex(exp) IN
    IF mode_ = "numeric" THEN
        CASE sympy_exp.kind = "ok"   -> [kind |-> "ok", value |-> N(sympy_exp, maxn_)]
          [] sympy_exp.kind = "hang" -> [kind |-> "hang", value |-> NoExp]
          [] OTHER                   -> [kind |-> "RuntimeError", value |-> NoExp]
    ELSE IF mode_ = "symbolic" THEN
        CASE sympy_exp.kind = "ok"   -> [kind |-> "ok", value |-> Symbolic(sympy_exp)]
          [] sympy_exp.kind = "hang" -> [kind |-> "hang", value |-> NoExp]
          [] OTHER                   -> [kind |-> "RuntimeError", value |-> NoExp]
    ELSE [kind |-> "LookupError", value |-> NoExp]

\* ---------------------------------------------------------- comp_exp_latex
\* re.split(r'\D+', exp2): the maximal digit runs of exp2, an empty run where
\* exp2 starts or ends with a separator.
RECURSIVE re_split(_, _, _, _)
re_split(exp2, acc, cur, insep) ==
    IF exp2 = << >> THEN Append(acc, cur)
    ELSE IF Head(exp2) \in Digits
         THEN re_split(Tail(exp2), acc, Append(cur, Head(exp2)), FALSE)
         ELSE IF insep THEN re_split(Tail(exp2), acc, cur, TRUE)
              ELSE re_split(Tail(exp2), Append(acc, cur), << >>, TRUE)

\* len(max(runs, key=len))
RECURSIVE MaxRunLen(_)
MaxRunLen(runs) ==
    IF runs = << >> THEN 0 ELSE Max(Len(Head(runs)), MaxRunLen(Tail(runs)))

\* Line 71 with an exclusive threshold.
SuspiciousExclusive(exp2, threshold) ==
    MaxRunLen(re_split(exp2, << >>, << >>, FALSE)) > threshold

\* Line 71: the suspicious bit of a raw answer.
Suspicious(exp2, threshold) ==
    MaxRunLen(re_split(exp2, << >>, << >>, FALSE)) >= threshold

\* The digits sympy carries a difference to: those of its least precise Float.
CommonDigits(a, b) ==
    LET pa == IF a.form = "numeric" THEN a.prec ELSE FullDigits
        pb == IF b.form = "numeric" THEN b.prec ELSE FullDigits
    IN  IF pa <= pb THEN pa ELSE pb

\* Line 75 with an exclusive threshold.
NumericEquivExclusive(sympy_exp, exp1, threshold) ==
    IF sympy_exp.free \/ exp1.free
    THEN IF sympy_exp.free /\ exp1.free /\ sympy_exp.sym = exp1.sym
         THEN [kind |-> "ok", equiv |-> 0 < threshold]
         ELSE [kind |-> "TypeError", equiv |-> FALSE]
    ELSE [kind |-> "ok", equiv |-> Abs(sympy_exp.val - exp1.val) < threshold]

\* Line 75: Abs(sympy_exp - exp1) <= numeric_threshold, or "TypeError" when a
\* free symbol is left in the difference and the relation has no truth value.
NumericEquiv(sympy_exp, exp1, threshold) ==
    IF sympy_exp.free \/ exp1.free
    THEN IF sympy_exp.free /\ exp1.free /\ sympy_exp.sym = exp1.sym
         THEN [kind |-> "ok", equiv |-> 0 <= threshold]
         ELSE [kind |-> "TypeError", equiv |-> FALSE]
    ELSE [kind |-> "ok", equiv |-> Abs(sympy_exp.val - exp1.val) <= threshold]

\* Line 85: simplify(sympy_exp - exp1) == 0. Two Numbers are subtracted as
\* numbers; two expressions that are no Numbers cancel when they are the same
\* expression; a Float and an expression that is no Number (pi/4) stay an
\* unevaluated sum, which simplify leaves as it is and which is not 0.
SymbolicEquiv(sympy_exp, exp1) ==
    IF sympy_exp.free \/ exp1.free
    THEN [kind |-> "ok", equiv |-> sympy_exp.free /\ exp1.free /\ sympy_exp.sym = exp1.sym]
    ELSE IF sympy_exp.num /\ exp1.num
    THEN LET p == CommonDigits(sympy_exp, exp1) IN
         [kind |-> "ok", equiv |-> Round(sympy_exp.val, p) = Round(exp1.val, p)]
    ELSE [kind |-> "ok",
          equiv |-> ~sympy_exp.num /\ ~exp1.num /\ sympy_exp.sym = exp1.sym]

\* Lines 76-79 and 86-89: the code of an answer compared without error.
Code(equiv, suspicious_) ==
    IF equiv THEN (IF suspicious_ THEN EQUIVALENT_SUSPICIOUS ELSE EQUIVALENT)
    ELSE (IF suspicious_ THEN NOT_EQUIVALENT_SUSPICIOUS ELSE NOT_EQUIVALENT)

\* comp_exp_list with the check of line 119 left out.
ValidModeAny(mode_) == TRUE

\* Line 119: the modes comp_exp_list accepts.
ValidMode(mode_) == mode_ = "numeric" \/ mode_ = "symbolic"

\* ------------------------------------------------------------------ state
VARIABLES
    correct,                \* grade_column's argument: the correct answer
    raw_values,             \* the rows the sheet returns for the column
    mode,
    exec_limit,
    maxn,
    suspicious_threshold,
    numeric_threshold,
    pc,                     \* the statement the program is at
    values,                 \* grade_column: the answers, one per row
    correct_exp,            \* comp_exp_list: the evaluated correct answer
    out,                    \* comp_exp_list: the codes appended so far
    idx,                    \* comp_exp_list: position of exp1 in exp_list
    alarm,                  \* seconds left on the SIGALRM timer, 0 when none
    exc,                    \* the exception in flight out of the with block
    suspicious,             \* comp_exp_latex: the suspicious bit
    sympy_exp,              \* comp_exp_latex: the evaluated answer
    ret,                    \* the code comp_exp_latex returned
    graded_result,          \* grade_column: what comp_exp_list returned
    destination,            \* the rows written to the destination range
    raised,                 \* the exception that left grade_column
    hist,                   \* history: one record per answer the loop took
    counts                  \* history: calls of evaluate_latex(exp), writes

params == <<correct, raw_values, mode, exec_limit, maxn, suspicious_threshold,
            numeric_threshold>>
locals == <<values, correct_exp, out, idx, suspicious, sympy_exp, ret,
            graded_result, destination, raised>>
vars == <<params, pc, alarm, exc, locals, hist, counts>>

Modes == {"numeric", "symbolic", "graphical"}
ExecLimits == {DefaultExecLimit, 2}
Maxns == {2, DefaultMaxn}
SuspiciousThresholds == {DefaultSuspiciousThreshold, 7}
NumericThresholds == {DefaultNumericThreshold, 33}

\* A row of the sheet: no cell, or one cell.
Rows == {<< >>} \cup {<<t>> : t \in Texts}
Columns == UNION {[1..n -> Rows] : n \in 0..MaxRows}

NoHist == [armed |-> 0, fired |-> "none", error |-> FALSE, compared |-> FALSE,
           evals |-> 0, codes |-> << >>]

Init ==
    /\ correct \in CorrectTexts
    /\ raw_values \in Columns
    /\ mode \in Modes
    /\ exec_limit \in ExecLimits
    /\ maxn \in Maxns
    /\ suspicious_threshold \in SuspiciousThresholds
    /\ numeric_threshold \in NumericThresholds
    \* maxn and numeric_threshold are read in a numeric batch only (line 135
    \* passes neither): the other batches are tried with the defaults.
    /\ mode # "numeric" => (maxn = DefaultMaxn /\ numeric_threshold = DefaultNumericThreshold)
    \* Each of line 97's parameters is read at a place of its own: a request
    \* departs from the defaults in at most one of them.
    /\ Cardinality({p \in 1..4 : <<exec_limit, maxn, suspicious_threshold, numeric_threshold>>[p]
                                  # <<DefaultExecLimit, DefaultMaxn, DefaultSuspiciousThreshold,
                                       DefaultNumericThreshold>>[p]}) <= 1
    /\ pc = "gc_read"
    /\ values = << >>
    /\ correct_exp = NoExp
    /\ out = << >>
    /\ idx = 0
    /\ alarm = 0
    /\ exc = "none"
    /\ suspicious = FALSE
    /\ sympy_exp = NoExp
    /\ ret = 0
    /\ graded_result = << >>
    /\ destination = << >>
    /\ raised = "none"
    /\ hist = << >>
    /\ counts = [ref_evals |-> 0, writes |-> 0]

\* ----------------------------------------------------------- grade_column
\* Lines 166-175: read the column, a row without a cell is the empty string,
\* and call comp_exp_list.
grade_column_read ==
    /\ pc = "gc_read"
    /\ values' = [k \in 1..Len(raw_values) |->
                    IF Len(raw_values[k]) = 0 THEN Empty ELSE raw_values[k][1]]
    /\ pc' = "cel_check"
    /\ UNCHANGED <<counts, params, alarm, exc, correct_exp, out, idx, suspicious,
                   sympy_exp, ret, graded_result, destination, raised, hist>>

\* grade_column writing the destination range also when comp_exp_list raised.
grade_column_write_anyway ==
    /\ pc \in {"gc_write", "raised"}
    /\ destination' = [k \in 1..Len(out) |-> <<out[k]>>]
    /\ counts' = [counts EXCEPT !.writes = @ + 1]
    /\ pc' = "done"
    /\ UNCHANGED <<params, alarm, exc, values, correct_exp, out, idx, suspicious,
                   sympy_exp, ret, graded_result, raised, hist>>

\* Lines 176-181: write one row per code to the destination range.
grade_column_write ==
    /\ pc = "gc_write"
    /\ destination' = [k \in 1..Len(graded_result) |-> <<graded_result[k]>>]
    /\ counts' = [counts EXCEPT !.writes = @ + 1]
    /\ pc' = "done"
    /\ UNCHANGED <<params, alarm, exc, values, correct_exp, out, idx, suspicious,
                   sympy_exp, ret, graded_result, raised, hist>>

\* ---------------------------------------------------------- comp_exp_list
\* Lines 119-120.
comp_exp_list_check ==
    /\ pc = "cel_check"
    /\ IF ValidMode(mode)
       THEN pc' = "cel_ref" /\ raised' = raised
       ELSE pc' = "raised" /\ raised' = "RuntimeError"
    /\ UNCHANGED <<counts, params, alarm, exc, values, correct_exp, out, idx, suspicious,
                   sympy_exp, ret, graded_result, destination, hist>>

\* Lines 122-123: evaluate_latex(exp) with its default mode and precision; an
\* exception leaves comp_exp_list, a call that does not return stays here.
comp_exp_list_reference ==
    /\ pc = "cel_ref"
    /\ LET r == evaluate_latex(correct, DefaultMode, DefaultMaxn) IN
       /\ r.kind # "hang"
       /\ counts' = [counts EXCEPT !.ref_evals = @ + 1]
       /\ IF r.kind = "ok"
          THEN /\ correct_exp' = r.value
               /\ out' = << >>
               /\ idx' = 1
               /\ pc' = "cel_loop"
               /\ raised' = raised
          ELSE /\ pc' = "raised"
               /\ raised' = r.kind
               /\ UNCHANGED <<correct_exp, out, idx>>
    /\ UNCHANGED <<params, alarm, exc, values, suspicious, sympy_exp, ret,
                   graded_result, destination, hist>>

\* Lines 124-127 and 141: take the next answer, an empty one gets 0 at once;
\* return out after the last.
comp_exp_list_loop ==
    /\ pc = "cel_loop"
    /\ IF idx > Len(values)
       THEN /\ graded_result' = out
            /\ pc' = "gc_write"
            /\ UNCHANGED <<out, idx, hist>>
       ELSE IF Len(values[idx]) = 0
       THEN /\ out' = Append(out, NOT_EQUIVALENT)
            /\ idx' = idx + 1
            /\ hist' = Append(hist, [NoHist EXCEPT !.codes = <<NOT_EQUIVALENT>>])
            /\ pc' = "cel_loop"
            /\ UNCHANGED graded_result
       ELSE /\ hist' = Append(hist, NoHist)
            /\ pc' = "tl_enter"
            /\ UNCHANGED <<out, idx, graded_result>>
    /\ UNCHANGED <<counts, params, alarm, exc, values, correct_exp, suspicious, sympy_exp,
                   ret, destination, raised>>

\* time_limit with line 17 left out: the block is entered with no alarm armed.
time_limit_enter_unarmed ==
    /\ pc = "tl_enter"
    /\ alarm' = 0
    /\ hist' = hist
    /\ pc' = IF mode = "numeric" \/ mode = "symbolic" THEN "cmp_susp" ELSE "tl_exit"
    /\ UNCHANGED <<counts, params, exc, locals>>

\* Lines 129 and 16-19: install the handler, arm the alarm, enter the block;
\* lines 130 and 134 choose the call by mode, no call for another mode.
time_limit_enter ==
    /\ pc = "tl_enter"
    /\ alarm' = TimeLimitSeconds
    /\ hist' = [hist EXCEPT ![Len(hist)].armed = TimeLimitSeconds]
    /\ pc' = IF mode = "numeric" \/ mode = "symbolic" THEN "cmp_susp" ELSE "tl_exit"
    /\ UNCHANGED <<counts, params, exc, locals>>

\* Line 71.
comp_exp_latex_suspicious ==
    /\ pc = "cmp_susp"
    /\ suspicious' = Suspicious(values[idx], suspicious_threshold)
    /\ hist' = [hist EXCEPT ![Len(hist)].compared = TRUE]
    /\ pc' = "cmp_eval"
    /\ UNCHANGED <<counts, params, alarm, exc, values, correct_exp, out, idx, sympy_exp,
                   ret, graded_result, destination, raised>>

\* Lines 74 and 84: evaluate the answer; the symbolic call passes no maxn. An
\* exception is wrapped in RuntimeError by lines 39/45 and again by 80/90.
comp_exp_latex_evaluate ==
    /\ pc = "cmp_eval"
    /\ LET r == IF mode = "numeric"
                THEN evaluate_latex(values[idx], "numeric", maxn)
                ELSE evaluate_latex(values[idx], "symbolic", DefaultMaxn) IN
       /\ r.kind # "hang"
       /\ hist' = [hist EXCEPT ![Len(hist)].evals = @ + 1,
                                ![Len(hist)].error = (r.kind # "ok")]
       /\ IF r.kind = "ok"
          THEN /\ sympy_exp' = r.value
               /\ pc' = "cmp_diff"
               /\ UNCHANGED exc
          ELSE /\ exc' = "RuntimeError"
               /\ pc' = "tl_exit"
               /\ UNCHANGED sympy_exp
    /\ UNCHANGED <<counts, params, alarm, values, correct_exp, out, idx, suspicious, ret,
                   graded_result, destination, raised>>

\* Lines 75-79 and 85-89: the difference, its test, the code returned; an
\* exception is wrapped in RuntimeError by lines 80/90.
comp_exp_latex_compare ==
    /\ pc = "cmp_diff"
    /\ LET r == IF mode = "numeric"
                THEN NumericEquiv(sympy_exp, correct_exp, numeric_threshold)
                ELSE SymbolicEquiv(sympy_exp, correct_exp) IN
       IF r.kind = "ok"
       THEN /\ ret' = Code(r.equiv, suspicious)
            /\ pc' = "cel_append"
            /\ UNCHANGED <<exc, hist>>
       ELSE /\ exc' = "RuntimeError"
            /\ hist' = [hist EXCEPT ![Len(hist)].error = TRUE]
            /\ pc' = "tl_exit"
            /\ UNCHANGED ret
    /\ UNCHANGED <<counts, params, alarm, values, correct_exp, out, idx, suspicious,
                   sympy_exp, graded_result, destination, raised>>

\* Lines 131 and 135: out.append of the code comp_exp_latex returned.
comp_exp_list_append ==
    /\ pc = "cel_append"
    /\ out' = Append(out, ret)
    /\ hist' = [hist EXCEPT ![Len(hist)].codes = Append(@, ret)]
    /\ pc' = "tl_exit"
    /\ UNCHANGED <<counts, params, alarm, exc, values, correct_exp, idx, suspicious,
                   sympy_exp, ret, graded_result, destination, raised>>

\* time_limit with line 21 left out: the block is left with the alarm armed.
time_limit_exit_armed ==
    /\ pc = "tl_exit"
    /\ alarm' = alarm
    /\ IF exc = "none"
       THEN pc' = "cel_loop" /\ idx' = idx + 1
       ELSE pc' = "cel_except" /\ idx' = idx
    /\ UNCHANGED <<counts, params, exc, values, correct_exp, out, suspicious, sympy_exp,
                   ret, graded_result, destination, raised, hist>>

\* Lines 20-21: the finally clause disarms the alarm; without an exception the
\* loop goes on, with one the except clauses of comp_exp_list are next.
time_limit_exit ==
    /\ pc = "tl_exit"
    /\ alarm' = 0
    /\ IF exc = "none"
       THEN pc' = "cel_loop" /\ idx' = idx + 1
       ELSE pc' = "cel_except" /\ idx' = idx
    /\ UNCHANGED <<counts, params, exc, values, correct_exp, out, suspicious, sympy_exp,
                   ret, graded_result, destination, raised, hist>>

\* The except clauses of comp_exp_list followed by another try of the same
\* answer.
comp_exp_list_except_retry ==
    /\ pc = "cel_except"
    /\ LET code == IF exc = "TimeoutException" THEN TIMED_OUT ELSE ERRORED IN
       /\ out' = Append(out, code)
       /\ hist' = [hist EXCEPT ![Len(hist)].codes = Append(@, code)]
    /\ exc' = "none"
    /\ idx' = idx
    /\ pc' = "cel_loop"
    /\ UNCHANGED <<counts, params, alarm, values, correct_exp, suspicious, sympy_exp, ret,
                   graded_result, destination, raised>>

\* Lines 137-140.
comp_exp_list_except ==
    /\ pc = "cel_except"
    /\ LET code == IF exc = "TimeoutException" THEN TIMED_OUT ELSE ERRORED IN
       /\ out' = Append(out, code)
       /\ hist' = [hist EXCEPT ![Len(hist)].codes = Append(@, code)]
    /\ exc' = "none"
    /\ idx' = idx + 1
    /\ pc' = "cel_loop"
    /\ UNCHANGED <<counts, params, alarm, values, correct_exp, suspicious, sympy_exp, ret,
                   graded_result, destination, raised>>

\* ---------------------------------------------------------------- SIGALRM
\* The exception line 14 raises at statement at, as it reaches the with block:
\* inside the try blocks of evaluate_latex and comp_exp_latex it is caught by
\* except Exception (TimeoutException is an Exception) and wrapped.
HandlerException(at) ==
    IF at \in {"cmp_eval", "cmp_diff"} THEN "RuntimeError" ELSE "TimeoutException"

\* A second passes while the alarm is armed; when none is left the signal is
\* delivered and signal_handler raises in the statement being executed. Raised
\* in the finally clause it replaces the exception in flight, and line 21 is
\* not executed.
SIGALRM ==
    /\ alarm > 0
    /\ alarm' = alarm - 1
    /\ IF alarm' = 0
       THEN /\ exc' = HandlerException(pc)
            /\ hist' = [hist EXCEPT ![Len(hist)].fired = pc]
            /\ pc' = IF pc = "tl_exit" THEN "cel_except" ELSE "tl_exit"
       ELSE UNCHANGED <<exc, hist, pc>>
    /\ UNCHANGED <<counts, params, locals>>

Next ==
    \/ grade_column_read
    \/ comp_exp_list_check
    \/ comp_exp_list_reference
    \/ comp_exp_list_loop
    \/ time_limit_enter
    \/ comp_exp_latex_suspicious
    \/ comp_exp_latex_evaluate
    \/ comp_exp_latex_compare
    \/ comp_exp_list_append
    \/ time_limit_exit
    \/ comp_exp_list_except
    \/ SIGALRM
    \/ grade_column_write

Spec == Init /\ [][Next]_vars

\* The statements of the program, the signal apart.
ProgramStep ==
    \/ grade_column_read
    \/ comp_exp_list_check
    \/ comp_exp_list_reference
    \/ comp_exp_list_loop
    \/ time_limit_enter
    \/ comp_exp_latex_suspicious
    \/ comp_exp_latex_evaluate
    \/ comp_exp_latex_compare
    \/ comp_exp_list_append
    \/ time_limit_exit
    \/ comp_exp_list_except
    \/ grade_column_write

\* The requests with the default time limit, precision and thresholds of
\* line 97, and a reference that is a rational number or is malformed.
FairInit ==
    /\ Init
    /\ correct \in {Third, Malformed}
    /\ exec_limit = DefaultExecLimit
    /\ maxn = DefaultMaxn
    /\ suspicious_threshold = DefaultSuspiciousThreshold
    /\ numeric_threshold = DefaultNumericThreshold

\* The interpreter goes on executing a statement that can be executed, and an
\* armed alarm is delivered.
FairSpec == FairInit /\ [][Next]_vars /\ WF_vars(ProgramStep) /\ WF_vars(SIGALRM)

\* ----------------------------------------------------------------- claims
\* comp_exp_list has returned its list.
Returned == pc \in {"gc_write", "done"}

\* The loop has finished with answer k.
Graded(k) == k < idx

\* The alarm went off for answer k before comp_exp_latex returned.
ExpiredBeforeReturn(k) == hist[k].fired \in {"cmp_susp", "cmp_eval", "cmp_diff"}

\* An earlier answer than k timed out or errored.
EarlierFailure(k) ==
    \E j \in 1..(k - 1) :
        \E n \in 1..Len(hist[j].codes) : hist[j].codes[n] \in {TIMED_OUT, ERRORED}

\* The code of exp1 compared against correct_exp with no alarm going off.
CodeAlone(exp1) ==
    IF exp1 = Empty THEN NOT_EQUIVALENT
    ELSE LET e == IF mode = "numeric"
                  THEN evaluate_latex(exp1, "numeric", maxn)
                  ELSE evaluate_latex(exp1, "symbolic", DefaultMaxn)
             r == IF mode = "numeric"
                  THEN NumericEquiv(e.value, correct_exp, numeric_threshold)
                  ELSE SymbolicEquiv(e.value, correct_exp)
         IN  IF e.kind = "ok" /\ r.kind = "ok"
             THEN Code(r.equiv, Suspicious(exp1, suspicious_threshold))
             ELSE ERRORED

\* C1: when comp_exp_list returns, the list has one entry per candidate and
\* entry k is the code produced for candidate k, wherever the alarm fires.
C1_OneCodePerCandidate ==
    Returned =>
        /\ Len(graded_result) = Len(values)
        /\ \A k \in 1..Len(values) : hist[k].codes = <<graded_result[k]>>

\* C2: a candidate whose comparison had not returned when its alarm went off
\* gets TIMED_OUT at its position, wherever the alarm interrupted it.
C2_ExpiryIsTimedOut ==
    \A k \in 1..Len(hist) :
        (Graded(k) /\ ExpiredBeforeReturn(k)) =>
            (k <= Len(out) /\ out[k] = TIMED_OUT)

\* C3: a candidate whose comparison raised an error other than the deadline
\* gets ERRORED at its position, nothing is raised to the caller, and the
\* loop goes on over every remaining candidate.
C3_ErrorIsErrored ==
    /\ \A k \in 1..Len(hist) :
          hist[k].error =>
              /\ raised = "none"
              /\ Graded(k) => (k <= Len(out) /\ out[k] = ERRORED)
    /\ Returned => Len(hist) = Len(values)

\* C4: after a candidate timed out or errored, a later candidate finds no
\* alarm pending, is timed with the full budget of the request, and gets the
\* code it gets when compared alone.
C4_LaterCandidatesUnaffected ==
    \A k \in 1..Len(hist) :
        EarlierFailure(k) =>
            /\ (k = idx /\ pc = "tl_enter") => alarm = 0
            /\ hist[k].armed \in {0, exec_limit}
            /\ (Graded(k) /\ hist[k].fired = "none") =>
                  (k <= Len(out) /\ out[k] = CodeAlone(values[k]))

\* C5: the timer armed for a candidate that is not empty is set to
\* exec_limit.
C5_TimerIsExecLimit ==
    \A k \in 1..Len(hist) : hist[k].armed # 0 => hist[k].armed = exec_limit

\* C6: an empty candidate gets NOT_EQUIVALENT at its position, with no call
\* of comp_exp_latex and no timer armed for it.
C6_EmptyIsNotEquivalent ==
    \A k \in 1..Len(hist) :
        (values[k] = Empty /\ Graded(k)) =>
            /\ k <= Len(out) /\ out[k] = NOT_EQUIVALENT
            /\ hist[k].armed = 0
            /\ ~hist[k].compared
            /\ hist[k].fired = "none"

\* C7: the two expressions compared are of the mode of the request: the
\* correct answer handed to comp_exp_latex is symbolic in a symbolic batch and
\* numeric in a numeric batch.
C7_ReferenceInRequestMode ==
    pc = "cmp_diff" => (correct_exp.form = mode /\ sympy_exp.form = mode)

\* C8: in a numeric batch the correct answer and the candidate are evaluated
\* to maxn digits.
C8_SamePrecision ==
    (mode = "numeric" /\ pc = "cmp_diff") =>
        (correct_exp.prec = maxn /\ sympy_exp.prec = maxn)

\* C9: a mode other than numeric and symbolic raises out of comp_exp_list:
\* no list is returned, no code is produced, nothing is written.
C9_InvalidModeRaises ==
    (mode # "numeric" /\ mode # "symbolic") =>
        /\ pc \in {"gc_read", "cel_check", "raised"}
        /\ pc = "raised" => raised = "RuntimeError"
        /\ out = << >> /\ hist = << >> /\ graded_result = << >>
        /\ destination = << >>
        /\ alarm = 0

\* An invalid mode has raised, for a column with an empty and another answer.
C9_Witness ==
    /\ mode = "graphical"
    /\ pc = "raised" /\ raised = "RuntimeError"
    /\ Len(values) = 2 /\ values[1] = Empty /\ values[2] = Third

\* C10: when the correct answer does not evaluate, comp_exp_list raises
\* before any candidate is taken and any alarm armed, and produces no code.
C10_ReferenceFailureRaises ==
    parse_latex(correct).kind = "fail" =>
        /\ pc \in {"gc_read", "cel_check", "cel_ref", "raised"}
        /\ pc = "raised" => raised = "RuntimeError"
        /\ out = << >> /\ hist = << >> /\ graded_result = << >>
        /\ alarm = 0
        /\ sympy_exp = NoExp

\* The correct answer failed to evaluate in a valid mode, with candidates.
C10_Witness ==
    /\ correct = Malformed
    /\ mode = "symbolic"
    /\ pc = "raised" /\ raised = "RuntimeError"
    /\ Len(values) = 2 /\ values[1] = Third /\ values[2] = Empty

\* C11: under a valid mode and a correct answer that evaluates, and with an
\* armed alarm eventually delivered, comp_exp_list returns, also when the
\* evaluation of a candidate never returns by itself.
C11_BatchReturns ==
    (mode \in {"numeric", "symbolic"} /\ parse_latex(correct).kind = "ok")
        ~> Returned

\* A batch has returned although the evaluation of its first candidate never
\* returns by itself.
C11_Witness ==
    /\ Returned
    /\ Len(values) = 2 /\ values[1] = Tower /\ values[2] = Third
    /\ Len(out) = 2

\* The length of the longest run of consecutive digits of a text.
LongestDigitRun(text) ==
    LET runs == {n \in 1..Len(text) :
                    \E i \in 1..(Len(text) - n + 1) :
                        \A m \in i..(i + n - 1) : text[m] \in Digits}
    IN  IF runs = {} THEN 0 ELSE CHOOSE n \in runs : \A m \in runs : m <= n

\* The four rows of the mapping from equivalence and suspicion to a code.
FourRows(equiv, susp) ==
    CASE ~equiv /\ ~susp -> NOT_EQUIVALENT
      [] ~equiv /\ susp  -> NOT_EQUIVALENT_SUSPICIOUS
      [] equiv /\ ~susp  -> EQUIVALENT
      [] equiv /\ susp   -> EQUIVALENT_SUSPICIOUS

\* comp_exp_latex has returned a code for the answer at idx (no error, no
\* alarm so far), or that code has just been appended.
ComparedNow == pc = "cel_append"
AppendedNow == pc = "tl_exit" /\ exc = "none" /\ hist[idx].codes # << >>

\* C12: in a numeric batch the code of a candidate compared without error or
\* timeout is an equivalent code exactly when the absolute difference of the
\* two values compared is at most numeric_threshold, and it follows the four
\* rows with the suspicious bit.
C12_NumericThresholdInclusive ==
    LET close == Abs(correct_exp.val - sympy_exp.val) <= numeric_threshold
        susp == LongestDigitRun(values[idx]) >= suspicious_threshold
    IN  /\ (mode = "numeric" /\ ComparedNow) => ret = FourRows(close, susp)
        /\ (mode = "numeric" /\ AppendedNow) =>
               out[Len(out)] = FourRows(close, susp)

\* A candidate at exactly the threshold from the correct answer is appended
\* as equivalent (and suspicious).
C12_Witness ==
    /\ mode = "numeric" /\ AppendedNow
    /\ numeric_threshold = 33
    /\ Abs(correct_exp.val - sympy_exp.val) = 33
    /\ out[Len(out)] = EQUIVALENT_SUSPICIOUS

\* C13: in either mode the code of a candidate compared without error or
\* timeout is a suspicious one exactly when the longest run of digits of its
\* raw text is at least suspicious_threshold.
C13_SuspiciousIsLongestRun ==
    LET susp == LongestDigitRun(values[idx]) >= suspicious_threshold
        suspicious_codes == {NOT_EQUIVALENT_SUSPICIOUS, EQUIVALENT_SUSPICIOUS}
    IN  /\ ComparedNow => (ret \in suspicious_codes <=> susp)
        /\ AppendedNow => (out[Len(out)] \in suspicious_codes <=> susp)

\* A candidate whose longest run is exactly the threshold is appended as
\* suspicious in a symbolic batch.
C13_Witness ==
    /\ mode = "symbolic" /\ AppendedNow
    /\ LongestDigitRun(values[idx]) = suspicious_threshold
    /\ out[Len(out)] = NOT_EQUIVALENT_SUSPICIOUS

\* C14: in a symbolic batch the code of a candidate compared without error
\* or timeout is an equivalent code exactly when the symbolic difference of
\* the correct answer and the candidate simplifies to zero.
C14_SymbolicZeroTest ==
    (mode = "symbolic" /\ ComparedNow) =>
        LET reference == Symbolic(parse_latex(correct))
            candidate == Symbolic(parse_latex(values[idx]))
        IN  ret \in {EQUIVALENT, EQUIVALENT_SUSPICIOUS}
                <=> SymbolicEquiv(candidate, reference).equiv

\* C16: every row read is one candidate, in order, a row with no cell the
\* empty string; one value per row is written, in order, 0 for a row with no
\* cell.
C16_ColumnInColumnOut ==
    /\ pc # "gc_read" =>
          /\ Len(values) = Len(raw_values)
          /\ \A k \in 1..Len(raw_values) :
                values[k] = IF raw_values[k] = << >> THEN Empty ELSE raw_values[k][1]
    /\ pc = "done" =>
          /\ Len(destination) = Len(raw_values)
          /\ \A k \in 1..Len(raw_values) :
                raw_values[k] = << >> => destination[k] = <<NOT_EQUIVALENT>>

\* C17: the correct answer is evaluated once, before the first candidate, and
\* is not changed afterwards; each candidate is taken once, in order, and
\* evaluated at most once, also after a timeout or an error.
C17_OnceEach ==
    /\ counts.ref_evals <= 1
    /\ pc \in {"gc_read", "cel_check", "cel_ref"} =>
          (counts.ref_evals = 0 /\ hist = << >>)
    /\ (hist # << >> \/ Returned) => counts.ref_evals = 1
    /\ (counts.ref_evals = 1 /\ pc # "raised") =>
          correct_exp = N(parse_latex(correct), DefaultMaxn)
    /\ Len(hist) <= Len(values)
    /\ Len(hist) \in {idx - 1, idx}
    /\ \A k \in 1..Len(hist) :
          /\ hist[k].evals <= 1
          /\ values[k] = Empty => hist[k].evals = 0

\* A batch has returned after a timeout of its first candidate and an error
\* of its second.
C17_Witness ==
    /\ Returned
    /\ Len(hist) = 2
    /\ hist[1].fired = "cmp_susp" /\ hist[1].evals = 0
    /\ hist[2].error /\ hist[2].evals = 1
    /\ counts.ref_evals = 1

\* C18: an alarm is pending only while a candidate that is not empty is
\* compared: none between two candidates, none when comp_exp_list returns or
\* raises, and never more than the one timer.
C18_AlarmOnlyWhileComparing ==
    /\ alarm \in 0..TimeLimitSeconds
    /\ alarm > 0 =>
          /\ pc \in {"cmp_susp", "cmp_eval", "cmp_diff", "cel_append", "tl_exit"}
          /\ idx \in 1..Len(values)
          /\ values[idx] # Empty
          /\ Len(hist) = idx /\ hist[idx].armed > 0
    /\ pc \in {"gc_read", "cel_check", "cel_ref", "cel_loop", "tl_enter",
               "cel_except", "gc_write", "done", "raised"} => alarm = 0

\* The loop is between two candidates after the comparison of the first
\* raised an error under an armed alarm.
C18_Witness ==
    /\ pc = "cel_loop" /\ idx = 2 /\ Len(values) = 2
    /\ hist[1].armed > 0 /\ hist[1].error /\ hist[1].fired = "none"
    /\ alarm = 0

\* C19: the destination range is written at most once, with the list
\* comp_exp_list returned after its loop ended, and not at all when
\* comp_exp_list raised.
C19_WrittenOnceAfterReturn ==
    /\ counts.writes <= 1
    /\ counts.writes = 0 => destination = << >>
    /\ counts.writes = 1 =>
          /\ pc = "done" /\ raised = "none"
          /\ idx > Len(values) /\ Len(hist) = Len(values)
          /\ graded_result = out
          /\ destination = [k \in 1..Len(out) |-> <<out[k]>>]
    /\ pc = "raised" => (counts.writes = 0 /\ raised # "none")

\* A column of two codes has been written.
C19_Witness ==
    /\ pc = "done" /\ counts.writes = 1
    /\ Len(raw_values) = 2 /\ Len(destination) = 2

====
